---------------------------- MODULE Spec2Model ----------------------------
(***************************************************************************)
(* Model of the multi-tenant booklet ("carne") backend, src/server.js      *)
(* lines 133-386: the express application with the token middleware        *)
(* (verificarToken), the subscription gate (verificarAssinatura), the      *)
(* registration/login routes, the subscription routes and the CRUD routes. *)
(*                                                                         *)
(* The relational store is the only shared state.  Every handler is split  *)
(* at its db.query calls: one step of the model is the execution of one    *)
(* query together with the callback that consumes its result (the callback *)
(* touches no shared in-process state, so it commutes with everything      *)
(* until the next query it issues).  Any query may fail (err).             *)
(*                                                                         *)
(* Time is counted in ticks; a day is TicksPerDay ticks.                   *)
(***************************************************************************)
EXTENDS Integers, Sequences, FiniteSets, TLC

\* ------------------------------------------------------------------ bounds
MaxSlots    == 2      \* handlers in flight at once
MaxMembros  == 2      \* rows of membros
TicksPerDay == 2      \* granularity of the clock

\* --------------------------------------------------------- program constants
NumParcelas    == 12  \* for (let i = 1; i <= 12; i++)
DiasRenovacao  == 30  \* DATE_ADD(NOW(), INTERVAL 30 DAY)
DiasRegistro   == 1   \* DATE_SUB(NOW(), INTERVAL 1 DAY)

Dia == TicksPerDay

\* The instants the clock is sampled at: the start, a fraction of a day
\* later, and one renewal period after that.
Instantes == {0, 1, DiasRenovacao * Dia + 1}

Slots   == 1..MaxSlots
\* Slot 1 takes any request; the other slots take the requests that are run
\* concurrently with it.
Principal == {1}

\* What clients send.  usuarios.email and carnes.numero_carne are unique, so
\* these also cap the two tables.  Id 0 is an id no row has.
Enderecos == <<"a@x.com", "b@x.com">>
Emails  == {Enderecos[i] : i \in 1..Len(Enderecos)}
Senhas  == {"pw"}
Numeros == {"001", "002"}
Alvos   == {0, 1}
Contas  == 1..Len(Enderecos)

VARIABLES
    usuarios,        \* table usuarios: sequence of [email, senha], id = index
    config_sistema,  \* table config_sistema: sequence of rows
    membros,         \* table membros: sequence of [usuario_id], id = index
    carnes,          \* table carnes: sequence of [membro_id, numero_carne]
    parcelas,        \* table parcelas: sequence of rows, id = index
    agora,           \* the clock (new Date(), NOW())
    req              \* the handlers in flight, one per slot

vars == <<usuarios, config_sistema, membros, carnes, parcelas, agora, req>>
db   == <<usuarios, config_sistema, membros, carnes, parcelas>>

\* ------------------------------------------------------------------ requests
SemResp == [code |-> 0, corpo |-> "-", num |-> 0]

Resp(c, b) == [code |-> c, corpo |-> b, num |-> 0]

RespNum(c, b, n) == [code |-> c, corpo |-> b, num |-> n]

Nulo == <<>>

\* req.headers['authorization'] of a request that carries none.
SemToken == [tipo |-> "none", id |-> 0, iat |-> 0]

\* A handler in flight: the request (caminho, token, auth, alvo, numero,
\* completo, email, senha), the handler's locals (userId, insertId, carneId,
\* lido, dataPagamento), whether its last query failed (err), whether the
\* route's handler was entered (entrou), the response (resp) and the rows a
\* dashboard response carries (rows).
SlotVazio ==
    [pc |-> "idle", caminho |-> <<>>, token |-> SemToken,
     auth |-> "none", userId |-> 0,
     alvo |-> 0, numero |-> "-", completo |-> TRUE, email |-> "-",
     senha |-> "-",
     insertId |-> 0, carneId |-> 0, lido |-> "-", dataPagamento |-> Nulo,
     rows |-> <<>>, err |-> FALSE, entrou |-> FALSE, resp |-> SemResp]

Livre(r) == req[r].pc \in {"idle", "done"}

\* The response is sent: the handler's locals are gone, the request and its
\* outcome stay to be read.
Fim(s, resposta) ==
    [SlotVazio EXCEPT !.pc = "done", !.caminho = s.caminho, !.auth = s.auth,
                      !.userId = s.userId, !.alvo = s.alvo,
                      !.numero = s.numero, !.email = s.email,
                      !.err = s.err, !.entrou = s.entrou, !.resp = resposta]

\* ------------------------------------------------------------------ paths
\* A path is the sequence of its segments; a path parameter is written ":id"
\* and its value is carried beside the path.
Caminhos ==
    { <<"api", "status-assinatura">>,
      <<"api", "criar-pagamento">>,
      <<"api", "pagamento-sucesso">>,
      <<"api", "dashboard">>,
      <<"api", "carne", ":id", "parcelas">>,
      <<"api", "cadastrar">>,
      <<"api", "parcela", ":id">>,
      <<"api", "api", "status-assinatura">> }

\* String.prototype.includes on paths, segment by segment.
Includes(p, r) ==
    \E i \in 1..(Len(p) + 1) :
        /\ i + Len(r) - 1 <= Len(p)
        /\ SubSeq(p, i, i + Len(r) - 1) = r

\* app.use('/api', fn): fn sees req.path with the mount path stripped.
ReqPath(caminho) == Tail(caminho)

rotasLivres ==
    { <<"auth", "login">>, <<"auth", "register">>,
      <<"api", "criar-pagamento">>, <<"api", "pagamento-sucesso">>,
      <<"api", "status-assinatura">> }

RotaLivre(caminho) == \E r \in rotasLivres : Includes(ReqPath(caminho), r)

\* The route table: the handler a full path is dispatched to.
Rota(caminho) ==
    CASE caminho = <<"api", "status-assinatura">>        -> "status"
      [] caminho = <<"api", "criar-pagamento">>          -> "pagamento"
      [] caminho = <<"api", "pagamento-sucesso">>        -> "sucesso"
      [] caminho = <<"api", "dashboard">>                -> "dashboard"
      [] caminho = <<"api", "carne", ":id", "parcelas">> -> "parcelas"
      [] caminho = <<"api", "cadastrar">>                -> "cadastrar"
      [] caminho = <<"api", "parcela", ":id">>           -> "parcela"
      [] OTHER                                           -> "nenhuma"

Protegidas == {"dashboard", "parcelas", "cadastrar", "parcela"}

\* ------------------------------------------------------------------ tokens
\* A client presents no Authorization header, a string that is no token of
\* this server, or a token login signed for account id at instant iat.
Tokens ==
    {SemToken, [tipo |-> "bad", id |-> 0, iat |-> 0]}
    \cup [tipo : {"jwt"}, id : Contas, iat : Instantes]

\* Tokens that can exist now: login signs only for a row of usuarios, at an
\* instant that has been.  The one connection runs its queries in the order
\* they were issued, and register issues its second INSERT as soon as the
\* first returns: the SELECT of the login a token comes from has run behind
\* the first INSERT, so a request carrying the token is issued behind the
\* second.
TokensEmitidos ==
    {t \in Tokens : t.tipo = "jwt" =>
                      /\ t.id \in 1..Len(usuarios)
                      /\ t.iat <= agora
                      /\ \A q \in Slots : ~(/\ req[q].pc = "reg_config"
                                           /\ req[q].insertId = t.id)}

\* expiresIn: '24h'
ValidadeToken == Dia

\* A verification of the signature alone.
JwtVerifySemExpiracao(t) == t.tipo = "jwt"

\* jwt.verify: the signature is good and the token has not expired.
JwtVerify(t) == t.tipo = "jwt" /\ agora < t.iat + ValidadeToken

\* verificarToken: the auth outcome bound to the request.
verificarToken(t) ==
    IF t.tipo = "none" THEN [auth |-> "none", userId |-> 0]
    ELSE IF JwtVerify(t) THEN [auth |-> "ok", userId |-> t.id]
    ELSE [auth |-> "invalid", userId |-> 0]

\* ------------------------------------------------------------------ store
Linhas(tabela, P(_)) == {i \in 1..Len(tabela) : P(tabela[i])}

\* SELECT * FROM config_sistema WHERE usuario_id = ?
SelectConfig(uid) == SelectSeq(config_sistema, LAMBDA c : c.usuario_id = uid)

ConfigExpirada(uid) ==
    [usuario_id |-> uid, status_assinatura |-> "expirada",
     data_expiracao |-> agora - DiasRegistro * Dia]

\* UPDATE config_sistema SET data_expiracao = ..., status_assinatura = 'ativa'
\* WHERE usuario_id = ?
UpdateRenova(uid) ==
    [i \in 1..Len(config_sistema) |->
        IF config_sistema[i].usuario_id = uid
        THEN [config_sistema[i] EXCEPT
                 !.status_assinatura = "ativa",
                 !.data_expiracao = agora + DiasRenovacao * Dia]
        ELSE config_sistema[i]]

Init ==
    /\ usuarios = <<>>
    /\ config_sistema = <<>>
    /\ membros = <<>>
    /\ carnes = <<>>
    /\ parcelas = <<>>
    /\ agora = 0
    /\ req = [r \in Slots |-> SlotVazio]

\* The clock moves on to a later sampled instant.
Passa ==
    /\ \E t \in Instantes : t > agora /\ agora' = t
    /\ UNCHANGED <<db, req>>

\* ------------------------------------------------------- the subscription gate
\* if (config.status_assinatura === 'expirada' || agora > expiracao) -> 403
Bloqueada(cfg) ==
    cfg.status_assinatura = "expirada" \/ agora > cfg.data_expiracao

\* The synchronous start of the handler the path is routed to.
Despacha(s) ==
    LET rota == Rota(s.caminho)
        e    == [s EXCEPT !.entrou = TRUE]
    IN  CASE rota = "nenhuma"   -> Fim(s, Resp(404, "Cannot"))
          [] rota = "sucesso"   ->
                IF s.alvo = 0 THEN Fim(e, Resp(302, "/?error=sem_usuario"))
                ELSE [e EXCEPT !.pc = "renova"]
          [] rota = "cadastrar" ->
                IF ~s.completo THEN Fim(e, Resp(400, "Dados incompletos"))
                ELSE [e EXCEPT !.pc = "membro"]
          [] rota = "parcela"   -> [e EXCEPT !.pc = "le"]
          [] OTHER              -> [e EXCEPT !.pc = rota]

\* What a client can ask of the /api routes.
Pedidos ==
    {p \in [caminho : Caminhos, alvo : Alvos \cup Contas,
            numero : {"-"} \cup Numeros, completo : BOOLEAN] :
        LET rota == Rota(p.caminho) IN
        /\ (rota \notin {"sucesso", "parcelas", "parcela"} => p.alvo = 0)
        /\ (rota \in {"parcelas", "parcela"} => p.alvo \in Alvos)
        /\ (rota = "cadastrar" => p.numero # "-")
        /\ (rota # "cadastrar" => p.numero = "-" /\ p.completo)}

\* Handlers that are on their way to insert a row: the tables are capped by
\* refusing the request that would overflow them.
EmCurso(rota, pcs) ==
    Cardinality({q \in Slots : req[q].pc \in pcs /\ Rota(req[q].caminho) = rota})

\* A request under /api arrives: verificarToken, then verificarAssinatura up
\* to its query, or (for a free route) the route's handler up to its query.
\* A query issued while the gate's INSERT is pending runs behind it on the
\* connection, so the request is taken up once the INSERT has run.
Recebe(r, pedidos) ==
    /\ Livre(r)
    /\ \A q \in Slots : req[q].pc # "config"
    /\ \E p \in pedidos, t \in TokensEmitidos :
        LET a == verificarToken(t)
            s == [SlotVazio EXCEPT !.caminho = p.caminho, !.alvo = p.alvo,
                                   !.numero = p.numero,
                                   !.completo = p.completo, !.token = t,
                                   !.auth = a.auth, !.userId = a.userId]
            n == [SlotVazio EXCEPT !.caminho = p.caminho, !.alvo = p.alvo,
                                   !.auth = a.auth]
        IN  /\ (Rota(p.caminho) = "cadastrar" /\ p.completo /\ a.auth = "ok") =>
                   Len(membros) + EmCurso("cadastrar", {"assinatura", "membro"})
                       < MaxMembros
            /\ req' = [req EXCEPT ![r] =
                   [(IF a.auth = "none" THEN Fim(n, Resp(401, "Acesso negado"))
                     ELSE IF a.auth = "invalid"
                          THEN Fim(n, Resp(401, "Token invalido"))
                     ELSE IF RotaLivre(p.caminho) THEN Despacha(s)
                     ELSE [s EXCEPT !.pc = "assinatura"])
                    EXCEPT !.token = t]]
    /\ UNCHANGED <<db, agora>>

\* verificarAssinatura: the SELECT on config_sistema and its callback.  The
\* header was read by verificarToken and is not looked at again.
Assinatura(r) ==
    LET s      == [req[r] EXCEPT !.token = SemToken]
        uid    == IF s.userId = 0 THEN 1 ELSE s.userId
        result == SelectConfig(uid)
    IN  /\ s.pc = "assinatura"
        /\ \E err \in BOOLEAN :
             req' = [req EXCEPT ![r] =
                 IF err THEN Despacha([s EXCEPT !.err = TRUE])
                 ELSE IF Len(result) = 0
                      THEN [Fim(s, Resp(403, "assinatura_expirada"))
                               EXCEPT !.pc = "config"]
                 ELSE IF Bloqueada(result[1])
                      THEN Fim(s, Resp(403, "assinatura_expirada"))
                 ELSE Despacha(s)]
        /\ UNCHANGED <<db, agora>>

\* verificarAssinatura: the INSERT the gate issues, without a callback, for an
\* account it found no record of; the 403 is already sent.
InsereConfigGate(r) ==
    LET s == req[r]
    IN  /\ s.pc = "config"
        /\ \E insErr \in BOOLEAN :
             config_sistema' =
                 IF insErr THEN config_sistema
                 ELSE Append(config_sistema, ConfigExpirada(s.userId))
        /\ req' = [req EXCEPT ![r].pc = "done"]
        /\ UNCHANGED <<usuarios, membros, carnes, parcelas, agora>>

\* ----------------------------------------------------------- subscription routes
\* Math.ceil(x / d) for integers x and d > 0.
Ceil(x, d) == -((-x) \div d)

\* The days remaining rounded down instead of up.
DiasRestantesFloor(cfg) == (cfg.data_expiracao - agora) \div Dia

DiasRestantes(cfg) == Ceil(cfg.data_expiracao - agora, Dia)

StatusFinal(cfg) ==
    IF cfg.status_assinatura = "expirada" \/ agora > cfg.data_expiracao
    THEN "expirada" ELSE "ativa"

\* The body GET /api/status-assinatura answers for account uid.
GetStatus(uid, err) ==
    LET result == SelectConfig(uid)
    IN  IF err \/ Len(result) = 0 THEN RespNum(200, "expirada", 0)
        ELSE LET dias == DiasRestantes(result[1])
             IN  RespNum(200, StatusFinal(result[1]),
                         IF dias > 0 THEN dias ELSE 0)

StatusAssinatura(r) ==
    LET s == req[r]
    IN  /\ s.pc = "status"
        /\ \E err \in BOOLEAN :
             req' = [req EXCEPT ![r] =
                        Fim([s EXCEPT !.err = err], GetStatus(s.userId, err))]
        /\ UNCHANGED <<db, agora>>

\* POST /api/criar-pagamento: the payment provider answers or fails.
CriarPagamento(r) ==
    LET s == req[r]
    IN  /\ s.pc = "pagamento"
        /\ \E ok \in BOOLEAN :
             req' = [req EXCEPT ![r] =
                        IF ok THEN Fim(s, Resp(200, "init_point"))
                        ELSE Fim(s, Resp(500, "Erro ao gerar pagamento"))]
        /\ UNCHANGED <<db, agora>>

\* GET /api/pagamento-sucesso?user=alvo: the UPDATE and its callback.
PagamentoSucesso(r) ==
    LET s == req[r]
    IN  /\ s.pc = "renova"
        /\ \E err \in BOOLEAN :
            /\ config_sistema' =
                   IF err THEN config_sistema ELSE UpdateRenova(s.alvo)
            /\ req' = [req EXCEPT ![r] =
                          Fim([s EXCEPT !.err = err], Resp(302, "/"))]
        /\ UNCHANGED <<usuarios, membros, carnes, parcelas, agora>>

\* ------------------------------------------------------------------ CRUD routes
\* Every installment of the booklet counted, paid or not.
PagasTodas(cid) ==
    Cardinality({i \in 1..Len(parcelas) : parcelas[i].carne_id = cid})

\* (SELECT COUNT(*) FROM parcelas p WHERE p.carne_id = c.id AND p.status = 'pago')
Pagas(cid) ==
    Cardinality({i \in 1..Len(parcelas) :
                    parcelas[i].carne_id = cid /\ parcelas[i].status = "pago"})

\* FROM membros m JOIN carnes c ON m.id = c.membro_id WHERE m.usuario_id = ?
\* ORDER BY m.id DESC: the rows of the members m, m-1, .., 1, for member m
\* those of the booklets c, c+1, ..
RECURSIVE JoinCarnes(_, _, _)
JoinCarnes(uid, m, c) ==
    IF m = 0 THEN <<>>
    ELSE IF c > Len(carnes) THEN JoinCarnes(uid, m - 1, 1)
    ELSE (IF membros[m].usuario_id = uid /\ carnes[c].membro_id = m
          THEN << [id |-> m, carne_id |-> c,
                   numero_carne |-> carnes[c].numero_carne,
                   pagas |-> Pagas(c)] >>
          ELSE <<>>) \o JoinCarnes(uid, m, c + 1)

\* GET /api/dashboard: one row per (membro, carne) of the account.
DashboardRows(uid) == JoinCarnes(uid, Len(membros), 1)

Dashboard(r) ==
    LET s == req[r]
    IN  /\ s.pc = "dashboard"
        /\ \E err \in BOOLEAN :
             req' = [req EXCEPT ![r] =
                        IF err THEN Fim([s EXCEPT !.err = TRUE], Resp(500, "err"))
                        ELSE [Fim(s, RespNum(200, "rows",
                                             Len(DashboardRows(s.userId))))
                                 EXCEPT !.rows = DashboardRows(s.userId)]]
        /\ UNCHANGED <<db, agora>>

\* GET /api/carne/:id/parcelas
ParcelasDoCarne(cid) == Linhas(parcelas, LAMBDA p : p.carne_id = cid)

ListaParcelas(r) ==
    LET s == req[r]
    IN  /\ s.pc = "parcelas"
        /\ \E err \in BOOLEAN :
             req' = [req EXCEPT ![r] =
                        IF err THEN Fim([s EXCEPT !.err = TRUE], Resp(500, "err"))
                        ELSE Fim(s, RespNum(200, "rows",
                                        Cardinality(ParcelasDoCarne(s.alvo))))]
        /\ UNCHANGED <<db, agora>>

\* POST /api/cadastrar, first query: INSERT INTO membros.
InsereMembro(r) ==
    LET s == req[r]
    IN  /\ s.pc = "membro"
        /\ \E err \in BOOLEAN :
            IF err
            THEN /\ req' = [req EXCEPT ![r] =
                        Fim([s EXCEPT !.err = TRUE],
                            Resp(500, "Erro ao cadastrar carne"))]
                 /\ UNCHANGED membros
            ELSE /\ membros' = Append(membros, [usuario_id |-> s.userId])
                 /\ req' = [req EXCEPT ![r] =
                        [s EXCEPT !.pc = "carne", !.insertId = Len(membros) + 1]]
        /\ UNCHANGED <<usuarios, config_sistema, carnes, parcelas, agora>>

\* carnes.numero_carne is unique: the INSERT of a number already there fails.
NumeroDuplicado(numero) ==
    \E c \in 1..Len(carnes) : carnes[c].numero_carne = numero

\* POST /api/cadastrar, second query: INSERT INTO carnes.
InsereCarne(r) ==
    LET s == req[r]
    IN  /\ s.pc = "carne"
        /\ \E err \in BOOLEAN :
            IF err \/ NumeroDuplicado(s.numero)
            THEN /\ ~err
                 /\ req' = [req EXCEPT ![r] =
                        Fim([s EXCEPT !.err = TRUE],
                            Resp(500, "Erro ao cadastrar carne"))]
                 /\ UNCHANGED carnes
            ELSE /\ carnes' = Append(carnes, [membro_id |-> s.insertId,
                                              numero_carne |-> s.numero])
                 /\ req' = [req EXCEPT ![r] =
                        [s EXCEPT !.pc = "lote", !.carneId = Len(carnes) + 1]]
        /\ UNCHANGED <<usuarios, config_sistema, membros, parcelas, agora>>

\* The twelve rows of the batch insert; status and data_pagamento take the
\* column defaults.
LoteParcelas(cid) ==
    [i \in 1..NumParcelas |->
        [carne_id |-> cid, numero_parcela |-> i, status |-> "pendente",
         data_pagamento |-> Nulo]]

\* POST /api/cadastrar, third query: INSERT INTO parcelas ... VALUES ?
InsereParcelas(r) ==
    LET s == req[r]
    IN  /\ s.pc = "lote"
        /\ \E err \in BOOLEAN :
            IF err
            THEN /\ req' = [req EXCEPT ![r] =
                        Fim([s EXCEPT !.err = TRUE],
                            Resp(500, "Erro ao cadastrar carne"))]
                 /\ UNCHANGED parcelas
            ELSE /\ parcelas' = parcelas \o LoteParcelas(s.carneId)
                 /\ req' = [req EXCEPT ![r] = Fim(s, Resp(200, "success"))]
        /\ UNCHANGED <<usuarios, config_sistema, membros, carnes, agora>>

\* A blind set to 'pago' instead of a flip.
NovoStatusFixo(status) == "pago"

\* const novoStatus = r[0].status === 'pendente' ? 'pago' : 'pendente'
NovoStatus(status) == IF status = "pendente" THEN "pago" ELSE "pendente"

\* A date stamped whatever the new status.
DataPagamentoSempre(novo) == <<agora>>

\* const dataPagamento = novoStatus === 'pago' ? new Date() : null
DataPagamento(novo) == IF novo = "pago" THEN <<agora>> ELSE Nulo

\* Every id reads as a pending row, whether the row exists or not.
SelectStatusPadrao(id) ==
    IF id \in 1..Len(parcelas) THEN <<parcelas[id].status>> ELSE <<"pendente">>

\* SELECT status FROM parcelas WHERE id = ?
SelectStatus(id) ==
    IF id \in 1..Len(parcelas) THEN <<parcelas[id].status>> ELSE <<>>

\* PUT /api/parcela/:id, first query: SELECT status, and its callback.
LeParcela(r) ==
    LET s   == req[r]
        res == SelectStatus(s.alvo)
    IN  /\ s.pc = "le"
        /\ \E err \in BOOLEAN :
             req' = [req EXCEPT ![r] =
                 IF err \/ Len(res) = 0
                 THEN Fim([s EXCEPT !.err = err],
                          Resp(404, "Parcela nao encontrada"))
                 ELSE [s EXCEPT !.pc = "grava",
                                !.lido = res[1],
                                !.dataPagamento =
                                    DataPagamento(NovoStatus(res[1]))]]
        /\ UNCHANGED <<db, agora>>

\* PUT /api/parcela/:id, second query: UPDATE parcelas SET status, data_pagamento.
GravaParcela(r) ==
    LET s    == req[r]
        novo == NovoStatus(s.lido)
    IN  /\ s.pc = "grava"
        /\ \E err \in BOOLEAN :
            IF err
            THEN /\ req' = [req EXCEPT ![r] =
                        Fim([s EXCEPT !.err = TRUE], Resp(500, "err"))]
                 /\ UNCHANGED parcelas
            ELSE /\ parcelas' =
                        [i \in 1..Len(parcelas) |->
                            IF i = s.alvo
                            THEN [parcelas[i] EXCEPT
                                     !.status = novo,
                                     !.data_pagamento = s.dataPagamento]
                            ELSE parcelas[i]]
                 /\ req' = [req EXCEPT ![r] = Fim(s, Resp(200, novo))]
        /\ UNCHANGED <<usuarios, config_sistema, membros, carnes, agora>>

\* ------------------------------------------------------------------ auth routes
\* POST /auth/register arrives.
RecebeRegistro(r) ==
    /\ Livre(r)
    /\ \E email \in Emails, senha \in Senhas, completo \in BOOLEAN :
        LET s == [SlotVazio EXCEPT !.caminho = <<"auth", "register">>,
                                   !.email = email, !.senha = senha,
                                   !.completo = completo]
        IN  req' = [req EXCEPT ![r] =
                   IF ~completo
                   THEN Fim(s, Resp(400, "Preencha todos os campos"))
                   ELSE [s EXCEPT !.pc = "reg_usuario", !.entrou = TRUE]]
    /\ UNCHANGED <<db, agora>>

\* usuarios.email is unique.
EmailDuplicado(email) == \E u \in 1..Len(usuarios) : usuarios[u].email = email

\* POST /auth/register, first query: INSERT INTO usuarios.
InsereUsuario(r) ==
    LET s == req[r]
    IN  /\ s.pc = "reg_usuario"
        /\ \E err \in BOOLEAN :
            IF err \/ EmailDuplicado(s.email)
            THEN /\ ~err
                 /\ req' = [req EXCEPT ![r] =
                        Fim([s EXCEPT !.err = TRUE],
                            Resp(500, "Erro ao criar usuario"))]
                 /\ UNCHANGED usuarios
            ELSE /\ usuarios' = Append(usuarios, [email |-> s.email,
                                                  senha |-> s.senha])
                 /\ req' = [req EXCEPT ![r] =
                        [s EXCEPT !.pc = "reg_config",
                                  !.insertId = Len(usuarios) + 1]]
        /\ UNCHANGED <<config_sistema, membros, carnes, parcelas, agora>>

\* POST /auth/register, second query: INSERT INTO config_sistema.
InsereConfig(r) ==
    LET s == req[r]
    IN  /\ s.pc = "reg_config"
        /\ \E err \in BOOLEAN :
            IF err
            THEN /\ req' = [req EXCEPT ![r] =
                        Fim([s EXCEPT !.err = TRUE],
                            Resp(500, "Erro ao criar usuario"))]
                 /\ UNCHANGED config_sistema
            ELSE /\ config_sistema' =
                        Append(config_sistema, ConfigExpirada(s.insertId))
                 /\ req' = [req EXCEPT ![r] = Fim(s, Resp(200, "success"))]
        /\ UNCHANGED <<usuarios, membros, carnes, parcelas, agora>>

\* POST /auth/login arrives.
RecebeLogin(r) ==
    /\ Livre(r)
    /\ \E email \in Emails, senha \in Senhas \cup {"errada"} :
         req' = [req EXCEPT ![r] =
                    [SlotVazio EXCEPT !.caminho = <<"auth", "login">>,
                                      !.email = email, !.senha = senha,
                                      !.pc = "login", !.entrou = TRUE]]
    /\ UNCHANGED <<db, agora>>

\* POST /auth/login: the SELECT on usuarios, bcrypt.compare and jwt.sign.
Login(r) ==
    LET s     == req[r]
        achou == Linhas(usuarios, LAMBDA u : u.email = s.email)
    IN  /\ s.pc = "login"
        /\ \E err \in BOOLEAN :
             req' = [req EXCEPT ![r] =
                 IF err \/ achou = {}
                 THEN Fim([s EXCEPT !.err = err],
                          Resp(401, "Email ou senha incorretos"))
                 ELSE LET id == CHOOSE u \in achou : TRUE
                      IN  IF usuarios[id].senha # s.senha
                          THEN Fim(s, Resp(401, "Email ou senha incorretos"))
                          ELSE Fim(s, RespNum(200, "token", id))]
        /\ UNCHANGED <<db, agora>>

\* ------------------------------------------------------------------ the system
\* The subscription side of the server: registration, login, the gate, the
\* subscription routes and the read-only protected routes, one request after
\* another, on an empty store.
PedidosAssinatura ==
    {p \in Pedidos : Rota(p.caminho) \in
        {"status", "pagamento", "sucesso", "dashboard", "parcelas", "nenhuma"}}

Next ==
    \/ Passa
    \/ \E r \in Principal : Recebe(r, PedidosAssinatura)
    \/ \E r \in Principal : Assinatura(r)
    \/ \E r \in Principal : InsereConfigGate(r)
    \/ \E r \in Principal : StatusAssinatura(r)
    \/ \E r \in Principal : CriarPagamento(r)
    \/ \E r \in Principal : PagamentoSucesso(r)
    \/ \E r \in Principal : Dashboard(r)
    \/ \E r \in Principal : ListaParcelas(r)
    \/ \E r \in Principal : RecebeRegistro(r)
    \/ \E r \in Principal : InsereUsuario(r)
    \/ \E r \in Principal : InsereConfig(r)
    \/ \E r \in Principal : RecebeLogin(r)
    \/ \E r \in Principal : Login(r)

Spec == Init /\ [][Next]_vars

\* The booklet side of the server: the protected CRUD routes, one request
\* after another, on a store in which the accounts are registered and have
\* paid at instant 0 (each account's registration followed by its payment
\* callback).
PedidosCarnes == {p \in Pedidos : Rota(p.caminho) \in Protegidas}

InitCarnes ==
    /\ usuarios = [u \in Contas |-> [email |-> Enderecos[u], senha |-> "pw"]]
    /\ config_sistema =
          [u \in Contas |->
              [usuario_id |-> u, status_assinatura |-> "ativa",
               data_expiracao |-> DiasRenovacao * Dia]]
    /\ membros = <<>>
    /\ carnes = <<>>
    /\ parcelas = <<>>
    /\ agora = 0
    /\ req = [r \in Slots |-> SlotVazio]

NextCarnes ==
    \/ Passa
    \/ \E r \in Principal : Recebe(r, PedidosCarnes)
    \/ \E r \in Principal : Assinatura(r)
    \/ \E r \in Principal : Dashboard(r)
    \/ \E r \in Principal : ListaParcelas(r)
    \/ \E r \in Principal : InsereMembro(r)
    \/ \E r \in Principal : InsereCarne(r)
    \/ \E r \in Principal : InsereParcelas(r)
    \/ \E r \in Principal : LeParcela(r)
    \/ \E r \in Principal : GravaParcela(r)

SpecCarnes == InitCarnes /\ [][NextCarnes]_vars

\* The same store with handlers in flight at once, the clock standing still:
\* booklets are created and installments toggled in slot 1 while the other
\* slots toggle installments.
PedidosParcela == {p \in Pedidos : Rota(p.caminho) = "parcela"}

PedidosCriaEAlterna ==
    {p \in Pedidos :
        \/ Rota(p.caminho) = "parcela"
        \/ Rota(p.caminho) = "cadastrar" /\ p.completo /\ p.numero = "001"}

NextConcorrente ==
    \/ \E r \in Slots : Recebe(r, IF r \in Principal THEN PedidosCriaEAlterna
                                  ELSE PedidosParcela)
    \/ \E r \in Slots : Assinatura(r)
    \/ \E r \in Slots : InsereMembro(r)
    \/ \E r \in Slots : InsereCarne(r)
    \/ \E r \in Slots : InsereParcelas(r)
    \/ \E r \in Slots : LeParcela(r)
    \/ \E r \in Slots : GravaParcela(r)

SpecConcorrente == InitCarnes /\ [][NextConcorrente]_vars

\* The gate with handlers in flight at once, the clock standing still:
\* accounts are registered, the dashboard is asked for and payment callbacks
\* arrive in slot 1 while the other slots ask for the dashboard.
PedidosGate == {p \in Pedidos : Rota(p.caminho) \in {"dashboard", "sucesso"}}

PedidosDashboard == {p \in Pedidos : Rota(p.caminho) = "dashboard"}

NextGate ==
    \/ \E r \in Principal : RecebeRegistro(r)
    \/ \E r \in Principal : InsereUsuario(r)
    \/ \E r \in Principal : InsereConfig(r)
    \/ \E r \in Slots : Recebe(r, IF r \in Principal THEN PedidosGate
                                  ELSE PedidosDashboard)
    \/ \E r \in Slots : Assinatura(r)
    \/ \E r \in Slots : InsereConfigGate(r)
    \/ \E r \in Slots : Dashboard(r)
    \/ \E r \in Slots : PagamentoSucesso(r)

SpecGate == Init /\ [][NextGate]_vars

\* ------------------------------------------------------------------ claims
\* A cadastrar handler sends its response in this step.
CadastroTermina(r) ==
    /\ req[r].pc \in {"membro", "carne", "lote"}
    /\ req'[r].pc = "done"

\* The store holds the member, the booklet and the twelve pending
\* installments 1..12 the call of account uid made.
TudoCriado(ms, cs, ps, uid, mid, cid) ==
    /\ mid \in 1..Len(ms) /\ ms[mid].usuario_id = uid
    /\ cid \in 1..Len(cs) /\ cs[cid].membro_id = mid
    /\ LET rows == {i \in 1..Len(ps) : ps[i].carne_id = cid}
       IN  /\ Cardinality(rows) = NumParcelas
           /\ {ps[i].numero_parcela : i \in rows} = 1..NumParcelas
           /\ \A i \in rows : ps[i].status = "pendente"

\* C1: createBooklet is all-or-nothing: when the call ends, either the store
\* holds its member, its booklet and exactly 12 pending installments numbered
\* 1..12, or it holds no member, booklet or installment of that call.
C1_TudoOuNada ==
    [][\A r \in Slots : CadastroTermina(r) =>
          \/ /\ req'[r].resp.code = 200
             /\ TudoCriado(membros', carnes', parcelas', req[r].userId,
                           req[r].insertId, req[r].carneId)
          \/ /\ req'[r].resp.code # 200
             /\ req[r].insertId = 0
             /\ req[r].carneId = 0
             /\ <<membros, carnes, parcelas>>' = <<membros, carnes, parcelas>>
      ]_vars

\* C2: a second createBooklet with a bookletNumber that exists fails with
\* HTTP 400, exactly one booklet has that number afterwards, and the call
\* leaves no member or installment row behind.
C2_NumeroDuplicado ==
    [][\A r \in Slots :
          (/\ req[r].pc = "carne"
           /\ NumeroDuplicado(req[r].numero)
           /\ req'[r].pc = "done") =>
             /\ req'[r].resp.code = 400
             /\ Cardinality({c \in 1..Len(carnes') :
                    carnes'[c].numero_carne = req[r].numero}) = 1
             /\ req[r].insertId \notin 1..Len(membros')
             /\ parcelas' = parcelas
      ]_vars

\* A toggle writes in this step.
ToggleGrava(r) ==
    /\ req[r].pc = "grava"
    /\ req'[r].pc = "done"
    /\ req'[r].resp.code = 200

\* C3: concurrent toggles of one installment are serializable: in every
\* interleaving each toggle's write flips the status stored at that moment
\* and returns the status it wrote, so N toggles of a pending installment
\* leave it paid iff N is odd and the returned values are those of the
\* serial order of the writes.
C3_TogglesSerializaveis ==
    [][\A r \in Slots : ToggleGrava(r) =>
          /\ parcelas'[req[r].alvo].status # parcelas[req[r].alvo].status
          /\ req'[r].resp.corpo = parcelas'[req[r].alvo].status
      ]_vars

\* C4: a request to a protected route, with a valid token, of an account that
\* has a SubscriptionRecord reaches its handler iff the stored status is
\* active and now <= expiresAt; otherwise it is answered 403
\* "assinatura_expirada" and the handler does not run.
C4_GateSseAtiva ==
    [][\A r \in Slots :
          (/\ req[r].pc = "assinatura"
           /\ req[r].auth = "ok"
           /\ Rota(req[r].caminho) \in Protegidas
           /\ Len(SelectConfig(req[r].userId)) > 0
           /\ req'[r] # req[r]) =>
             LET cfg == SelectConfig(req[r].userId)[1]
             IN  IF /\ cfg.status_assinatura = "ativa"
                    /\ agora <= cfg.data_expiracao
                 THEN req'[r].entrou
                 ELSE /\ ~req'[r].entrou
                      /\ req'[r].pc = "done"
                      /\ req'[r].resp = Resp(403, "assinatura_expirada")
      ]_vars

\* C5: an authenticated request to create-payment, the payment-success
\* callback or subscription-status bypasses the subscription check: it
\* reaches its handler and is never answered 403, whatever the subscription.
C5_RotasLivres ==
    \A r \in Slots :
        (/\ req[r].pc = "done"
         /\ req[r].auth = "ok"
         /\ Rota(req[r].caminho) \in {"pagamento", "sucesso", "status"}) =>
            /\ req[r].entrou
            /\ req[r].resp.code # 403

\* C6: for every account A, getStatus(A) right after renew(A) answers active
\* with 30 days remaining, whatever A's subscription was before.
C6_StatusAposRenovar ==
    [][\A r \in Slots :
          (/\ req[r].pc = "renova"
           /\ req'[r].pc = "done"
           /\ ~req'[r].err
           /\ req[r].alvo \in 1..Len(usuarios)) =>
             GetStatus(req[r].alvo, FALSE)' = RespNum(200, "ativa", DiasRenovacao)
      ]_vars

\* C7: the payment-success callback needs no token: called with user=A and
\* no Authorization header it performs renew(A) and is not rejected.
C7_CallbackSemToken ==
    \A r \in Slots :
        (/\ req[r].pc = "done"
         /\ Rota(req[r].caminho) = "sucesso"
         /\ req[r].auth = "none"
         /\ req[r].alvo # 0) =>
            /\ req[r].entrou
            /\ req[r].resp = Resp(302, "/")

\* C8: sequential toggles are an involution: each toggle of an existing
\* installment changes its status between the two values pending and paid
\* (so two successive toggles restore it), pending->paid stamps paidAt with
\* the instant the handler took during the call, paid->pending clears paidAt,
\* the call returns the status it wrote, and no other row changes.
C8_ToggleInvolucao ==
    [][\A r \in Slots : ToggleGrava(r) =>
          LET i      == req[r].alvo
              antes  == parcelas[i]
              depois == parcelas'[i]
          IN  /\ {antes.status, depois.status} = {"pendente", "pago"}
              /\ antes.status = "pendente" =>
                    /\ depois.data_pagamento # Nulo
                    /\ depois.data_pagamento = req[r].dataPagamento
                    /\ depois.data_pagamento[1] \in Instantes
                    /\ depois.data_pagamento[1] <= agora
              /\ antes.status = "pago" => depois.data_pagamento = Nulo
              /\ req'[r].resp.corpo = depois.status
              /\ \A j \in 1..Len(parcelas) : j # i => parcelas'[j] = parcelas[j]
              /\ Len(parcelas') = Len(parcelas)
      ]_vars

\* A paid->pending toggle has answered: the installment, paid by an earlier
\* toggle, is pending again with paidAt cleared.
C8_Witness ==
    \E r \in Slots :
        /\ req[r].pc = "done"
        /\ Rota(req[r].caminho) = "parcela"
        /\ req[r].resp = Resp(200, "pendente")
        /\ parcelas[req[r].alvo].status = "pendente"
        /\ parcelas[req[r].alvo].data_pagamento = Nulo

\* The least n >= 0 with n days >= d ticks: ceil(d / 1 day) floored at 0.
DiasQueCobrem(d) ==
    CHOOSE n \in 0..(2 * DiasRenovacao) :
        /\ n * Dia >= d
        /\ \A m \in 0..(2 * DiasRenovacao) : m * Dia >= d => n <= m

\* C9: getStatus recomputes from the expiry time: for the stored record and
\* the current time it answers expired exactly when the stored status is
\* expired or now > expiresAt, and daysRemaining = ceil((expiresAt - now) /
\* 1 day) floored at 0.
C9_StatusRecalculado ==
    [][\A r \in Slots :
          (/\ req[r].pc = "status"
           /\ req'[r].pc = "done"
           /\ ~req'[r].err
           /\ Len(SelectConfig(req[r].userId)) > 0) =>
             LET cfg == SelectConfig(req[r].userId)[1]
             IN  /\ req'[r].resp.code = 200
                 /\ req'[r].resp.corpo = "expirada" <=>
                       (\/ cfg.status_assinatura = "expirada"
                        \/ agora > cfg.data_expiracao)
                 /\ req'[r].resp.corpo \in {"expirada", "ativa"}
                 /\ req'[r].resp.num = DiasQueCobrem(cfg.data_expiracao - agora)
                 /\ req'[r].resp.num >= 0
      ]_vars

\* getStatus has answered active with a part of a day rounded up: 30 days
\* remaining although less than 30 whole days are left.
C9_Witness ==
    \E r \in Slots :
        /\ req[r].pc = "done"
        /\ Rota(req[r].caminho) = "status"
        /\ req[r].resp = RespNum(200, "ativa", DiasRenovacao)
        /\ Len(SelectConfig(req[r].userId)) > 0
        /\ SelectConfig(req[r].userId)[1].data_expiracao - agora
              < DiasRenovacao * Dia

\* C10: getStatus(A) after createInitial(A, graceDays=0) answers expired with
\* 0 days remaining, and no protected route is entered for A while A's record
\* is still the expired one, that is until a renew(A).
C10_ExpiradaAteRenovar ==
    [][\A r \in Slots :
          /\ (/\ req[r].pc = "reg_config"
              /\ req'[r].pc = "done"
              /\ req'[r].resp.code = 200) =>
                GetStatus(req[r].insertId, FALSE)' = RespNum(200, "expirada", 0)
          /\ (/\ req[r].pc = "assinatura"
              /\ Rota(req[r].caminho) \in Protegidas
              /\ \E i \in 1..Len(config_sistema) :
                    /\ config_sistema[i].usuario_id = req[r].userId
                    /\ config_sistema[i].status_assinatura = "expirada") =>
                ~req'[r].entrou
      ]_vars

\* C11: a store-layer failure is converted to HTTP 500 at the request
\* boundary: when the gate's lookup of the SubscriptionRecord, the toggle's
\* read or the renew update fails, that step ends the request with status 500,
\* and after a failed gate lookup the route's handler is not entered.
C11_FalhaVira500 ==
    [][\A r \in Slots :
          (/\ req[r].pc \in {"assinatura", "le", "renova"}
           /\ req'[r].err /\ ~req[r].err) =>
             /\ req'[r].pc = "done"
             /\ req'[r].resp.code = 500
             /\ req[r].pc = "assinatura" => ~req'[r].entrou
      ]_vars

\* C12: toggleInstallment on an installment id that does not exist fails with
\* HTTP 404, writes nothing and leaves every installment's status and paidAt
\* as they were.
C12_ParcelaInexistente ==
    [][\A r \in Slots :
          (/\ req[r].pc = "le"
           /\ req[r].alvo \notin 1..Len(parcelas)
           /\ req'[r] # req[r]) =>
             /\ req'[r].pc = "done"
             /\ req'[r].resp = Resp(404, "Parcela nao encontrada")
             /\ db' = db
      ]_vars

\* A toggle of an id no installment has was answered 404 by a read that did
\* not fail, in a store that holds installments.
C12_Witness ==
    \E r \in Slots :
        /\ req[r].pc = "done"
        /\ Rota(req[r].caminho) = "parcela"
        /\ req[r].entrou
        /\ ~req[r].err
        /\ req[r].alvo \notin 1..Len(parcelas)
        /\ req[r].resp = Resp(404, "Parcela nao encontrada")
        /\ Len(parcelas) >= NumParcelas
        /\ \A i \in 1..Len(parcelas) : parcelas[i].status = "pendente"

\* C13: a request under /api whose Authorization header is absent is answered
\* 401 "Acesso negado", one whose token fails the signature or the 24-hour
\* expiry check is answered 401 "Token invalido"; in both cases no handler
\* is entered and the store does not change (no lazy SubscriptionRecord
\* either).  A request whose token verifies is bound to the account id the
\* token carries.
C13_SemTokenNadaCorre ==
    [][\A r \in Slots :
          (/\ Livre(r)
           /\ req'[r] # req[r]
           /\ Len(req'[r].caminho) > 0
           /\ Head(req'[r].caminho) = "api") =>
             LET q     == req'[r]
                 t     == q.token
                 valid == t.tipo = "jwt" /\ agora < t.iat + Dia
             IN  /\ t.tipo = "none" =>
                        /\ q.pc = "done" /\ ~q.entrou
                        /\ q.resp = Resp(401, "Acesso negado")
                        /\ db' = db
                 /\ (t.tipo # "none" /\ ~valid) =>
                        /\ q.pc = "done" /\ ~q.entrou
                        /\ q.resp = Resp(401, "Token invalido")
                        /\ db' = db
                 /\ valid => q.auth = "ok" /\ q.userId = t.id
                 /\ q.auth # "ok" => q.pc = "done"
      ]_vars

\* A token login signed for a registered account was presented more than 24
\* hours later and answered 401 without any handler entered.
C13_Witness ==
    \E r \in Slots :
        /\ req[r].pc = "done"
        /\ Rota(req[r].caminho) \in Protegidas
        /\ req[r].token.tipo = "jwt"
        /\ req[r].token.id \in 1..Len(usuarios)
        /\ agora >= req[r].token.iat + Dia
        /\ req[r].resp = Resp(401, "Token invalido")
        /\ ~req[r].entrou

C15_UmRegistroPorConta ==
    \A i, j \in 1..Len(config_sistema) :
        config_sistema[i].usuario_id = config_sistema[j].usuario_id => i = j

\* The account at the end of the ownership chain Booklet -> Member; 0 when
\* there is no such booklet.
DonoDoCarne(cid) ==
    IF cid \in 1..Len(carnes) THEN membros[carnes[cid].membro_id].usuario_id
    ELSE 0

\* C16: an authenticated account can neither read nor modify an installment
\* whose ownership chain Installment -> Booklet -> Member leads to another
\* account: a toggle writes only an installment of the account of the
\* request, and listInstallments of another account's booklet answers no
\* rows.
C16_IsolamentoDeContas ==
    [][\A r \in Slots :
          /\ ToggleGrava(r) =>
                DonoDoCarne(parcelas[req[r].alvo].carne_id) = req[r].userId
          /\ (/\ req[r].pc = "parcelas"
              /\ req'[r].pc = "done"
              /\ req'[r].resp.code = 200
              /\ DonoDoCarne(req[r].alvo) # req[r].userId) =>
                req'[r].resp.num = 0
      ]_vars

\* C17: in every reachable state, also after concurrent toggles in any
\* interleaving, each installment has paidAt non-null if and only if its
\* status is paid.
C17_PagoSseData ==
    \A i \in 1..Len(parcelas) :
        (parcelas[i].data_pagamento # Nulo) <=> (parcelas[i].status = "pago")

\* Two toggles of one installment raced: both read it pending, both wrote
\* and answered paid, and the installment is paid with paidAt set.
C17_Witness ==
    \E r1, r2 \in Slots :
        /\ r1 # r2
        /\ \A r \in {r1, r2} :
              /\ req[r].pc = "done"
              /\ Rota(req[r].caminho) = "parcela"
              /\ req[r].resp = Resp(200, "pago")
        /\ req[r1].alvo = req[r2].alvo
        /\ parcelas[req[r1].alvo].status = "pago"
        /\ parcelas[req[r1].alvo].data_pagamento # Nulo

============================================================================
